---------------------------- MODULE Spec2Model ----------------------------
(***************************************************************************)
(* Model of ldap3/operation/search.py: the assertion value normalizer, the *)
(* leaf match classifier, the filter scanner (parse_filter), the filter    *)
(* compiler and decompiler, and the search request builder.                *)
(*                                                                         *)
(* Text is a sequence of one-character strings; positions are 0-based as   *)
(* in the source (character pos of a text s is s[pos + 1]).  An optional   *)
(* value is a sequence of at most one element: <<>> is Python's None.      *)
(***************************************************************************)
EXTENDS Integers, Sequences, FiniteSets, TLC

VARIABLES
    search_filter,      \* parse_filter: the text being scanned
    pos,                \* parse_filter: index of the next character
    state,              \* parse_filter: scanner state (SEARCH_*)
    nodes,              \* the FilterNode objects created so far, by identity
    current_node,       \* parse_filter: cursor (a node identity, or None)
    start_pos,          \* parse_filter: start of the pending token, or NoPos
    skip_white_space,   \* parse_filter
    just_closed,        \* parse_filter
    pc,                 \* where the running call is
    exc,                \* the exception that ended the call, if any
    compiled_filter,    \* build_filter: the wire filter
    filter_string,      \* search_request_to_dict: the decompiled text
    request,            \* search_operation: the SearchRequest being filled
    call,               \* the call under way: function name and arguments
    ret                 \* what the call returned

vars == <<search_filter, pos, state, nodes, current_node, start_pos,
          skip_white_space, just_closed, pc, exc, compiled_filter,
          filter_string, request, call, ret>>

(***************************************************************************)
(* Program constants                                                       *)
(***************************************************************************)
ROOT == 0
AND == 1
OR == 2
NOT == 3
MATCH_APPROX == 4
MATCH_GREATER_OR_EQUAL == 5
MATCH_LESS_OR_EQUAL == 6
MATCH_EXTENSIBLE == 7
MATCH_PRESENT == 8
MATCH_SUBSTRING == 9
MATCH_EQUAL == 10

SEARCH_OPEN == 20
SEARCH_OPEN_OR_CLOSE == 21
SEARCH_MATCH_OR_CLOSE == 22
SEARCH_MATCH_OR_CONTROL == 23

\* string.whitespace, as far as the inputs of the model use it
whitespace == {" ", "\t"}

\* chr(0)
NUL == "NUL"

\* Python's None, as a value of an optional field
None == <<>>

Some(v) == <<v>>

\* Exceptions: the class and, for LDAPException, the message.
NoExc == [class |-> "", msg |-> ""]

LDAPException(m) == [class |-> "LDAPException", msg |-> m]

ValueError == [class |-> "ValueError", msg |-> ""]

AttributeError == [class |-> "AttributeError", msg |-> ""]

(***************************************************************************)
(* str methods                                                             *)
(***************************************************************************)
RECURSIVE LStrip(_)
LStrip(s) ==
    IF s # <<>> /\ Head(s) \in whitespace THEN LStrip(Tail(s)) ELSE s

RECURSIVE RStrip(_)
RStrip(s) ==
    IF s # <<>> /\ s[Len(s)] \in whitespace
    THEN RStrip(SubSeq(s, 1, Len(s) - 1))
    ELSE s

\* str.strip()
Strip(s) == RStrip(LStrip(s))

\* the least member of a set of positions, 0 for the empty set
FirstOf(hits) == IF hits = {} THEN 0 ELSE CHOOSE i \in hits : \A j \in hits : i <= j

\* 1-based index of the first occurrence of pat in s, 0 when there is none
Find(s, pat) ==
    FirstOf({i \in 1..(Len(s) - Len(pat) + 1) : SubSeq(s, i, i + Len(pat) - 1) = pat})

\* pat in s
Contains(s, pat) == Find(s, pat) # 0

\* s.startswith(pat), s.endswith(pat)
StartsWith(s, pat) == Len(s) >= Len(pat) /\ SubSeq(s, 1, Len(pat)) = pat

EndsWith(s, pat) ==
    Len(s) >= Len(pat) /\ SubSeq(s, Len(s) - Len(pat) + 1, Len(s)) = pat

\* s.count(c) for a single character
Count(s, c) == Cardinality({i \in 1..Len(s) : s[i] = c})

\* s.partition(sep): <<before, sep, after>>, <<s, '', ''>> without sep
PartitionAt(s, sep, i) ==
    IF i = 0 THEN <<s, <<>>, <<>>>>
    ELSE <<SubSeq(s, 1, i - 1), sep, SubSeq(s, i + Len(sep), Len(s))>>

Partition(s, sep) == PartitionAt(s, sep, Find(s, sep))

\* s.split(sep)
RECURSIVE Split(_, _)
SplitAt(s, sep, i) ==
    IF i = 0 THEN <<s>>
    ELSE <<SubSeq(s, 1, i - 1)>> \o Split(SubSeq(s, i + Len(sep), Len(s)), sep)

Split(s, sep) == SplitAt(s, sep, Find(s, sep))

\* s.replace(old, new): left to right, occurrences do not overlap
RECURSIVE Replace(_, _, _)
Replace(s, old, new) ==
    IF Len(s) < Len(old) THEN s
    ELSE IF SubSeq(s, 1, Len(old)) = old
         THEN new \o Replace(SubSeq(s, Len(old) + 1, Len(s)), old, new)
         ELSE <<Head(s)>> \o Replace(Tail(s), old, new)

\* s.lower(), on the letters the inputs of the model use
LowerChar(c) == CASE c = "D" -> "d" [] c = "N" -> "n" [] c = "A" -> "a"
                  [] c = "C" -> "c" [] OTHER -> c

Lower(s) == [i \in 1..Len(s) |-> LowerChar(s[i])]

\* the concatenation of a sequence of texts
RECURSIVE Join(_)
Join(ss) == IF ss = <<>> THEN <<>> ELSE Head(ss) \o Join(Tail(ss))

(***************************************************************************)
(* validate_assertion_value                                                *)
(***************************************************************************)
Esc2a == <<"\\", "2", "a">>
Esc2A == <<"\\", "2", "A">>
Esc28 == <<"\\", "2", "8">>
Esc29 == <<"\\", "2", "9">>
Esc5c == <<"\\", "5", "c">>
Esc5C == <<"\\", "5", "C">>
Esc00 == <<"\\", "0", "0">>

\* if old in value: value = value.replace(old, new)
ReplaceIfIn(value, old, new) ==
    IF Contains(value, old) THEN Replace(value, old, new) ELSE value

\* line 122-123: value.replace(r'\00', chr(0)) is evaluated and its result
\* dropped; value keeps what it was
DropReplace00(value) ==
    IF Contains(value, Esc00)
    THEN LET unassigned == Replace(value, Esc00, <<NUL>>) IN value
    ELSE value

validate_assertion_value(value) ==
    LET v0 == Strip(value)
        v1 == ReplaceIfIn(v0, Esc2a, <<"*">>)
        v2 == ReplaceIfIn(v1, Esc2A, <<"*">>)
        v3 == ReplaceIfIn(v2, Esc28, <<"(">>)
        v4 == ReplaceIfIn(v3, Esc29, <<")">>)
        v5 == ReplaceIfIn(v4, Esc5c, <<"\\">>)
        v6 == ReplaceIfIn(v5, Esc5C, <<"\\">>)
    IN  DropReplace00(v6)


(***************************************************************************)
(* evaluate_match                                                          *)
(***************************************************************************)
\* x.lower().strip() == 'dn'
IsDn(x) == Strip(Lower(x)) = <<"d", "n">>

\* x.strip() if x else None, for an optional text x
StripOrNone(x) == IF x = None \/ x[1] = <<>> THEN None ELSE Some(Strip(x[1]))

\* the result of a call: the exception raised, or the FilterNode returned
Raised(e) == [exc |-> e, tag |-> ROOT, assertion |-> None]

Leaf(tag, assertion) == [exc |-> NoExc, tag |-> tag, assertion |-> Some(assertion)]

\* lines 130-132: left_part, _, right_part = match.split('~='), which
\* unpacks only a list of exactly three items
UnpackApprox(parts) ==
    IF Len(parts) # 3 THEN Raised(ValueError)
    ELSE Leaf(MATCH_APPROX,
              [attr |-> Strip(parts[1]), value |-> validate_assertion_value(parts[3])])

ApproxMatch(match) == UnpackApprox(Split(match, <<"~", "=">>))

\* lines 134-140, 188-190: partition on the operator
AttrValue(tag, parts) ==
    Leaf(tag, [attr |-> Strip(parts[1]), value |-> validate_assertion_value(parts[3])])

AttrValueMatch(tag, match, operator) == AttrValue(tag, Partition(match, operator))

\* lines 145-170: the attribute name, dn flag and matching rule read from
\* the colon-separated left part; bad when the source raises there
ExtensibleParts(bad, name, dn, rule) ==
    [bad |-> bad, name |-> name, dn |-> dn, rule |-> rule]

ExtensibleList(efl, n) ==
    IF efl[1] = <<>>
    THEN IF n = 2 /\ ~IsDn(efl[2])
         THEN ExtensibleParts(FALSE, None, None, Some(validate_assertion_value(efl[2])))
         ELSE IF n = 3 /\ IsDn(efl[2])
         THEN ExtensibleParts(FALSE, None, Some(TRUE), Some(validate_assertion_value(efl[3])))
         ELSE ExtensibleParts(TRUE, None, None, None)
    ELSE IF n <= 3
    THEN IF n = 1 THEN ExtensibleParts(FALSE, Some(efl[1]), None, None)
         ELSE IF n = 2
         THEN IF IsDn(efl[2]) THEN ExtensibleParts(FALSE, Some(efl[1]), Some(TRUE), None)
              ELSE ExtensibleParts(FALSE, Some(efl[1]), None,
                                   Some(validate_assertion_value(efl[2])))
         ELSE IF n = 3 /\ IsDn(efl[2])
         THEN ExtensibleParts(FALSE, Some(efl[1]), Some(TRUE),
                              Some(validate_assertion_value(efl[3])))
         ELSE ExtensibleParts(TRUE, None, None, None)
    ELSE ExtensibleParts(FALSE, None, None, None)

\* not x, for an optional text x
Falsy(x) == x = None \/ x[1] = <<>>

\* lines 172-175
ExtensibleLeaf(r, right_part) ==
    IF r.bad \/ (Falsy(r.name) /\ Falsy(r.rule))
    THEN Raised(LDAPException("invalid extensible filter"))
    ELSE Leaf(MATCH_EXTENSIBLE,
              [attr |-> StripOrNone(r.name),
               value |-> validate_assertion_value(right_part),
               matchingRule |-> StripOrNone(r.rule),
               dnAttributes |-> r.dn])

ExtensibleSplit(efl, right_part) ==
    ExtensibleLeaf(ExtensibleList(efl, Len(efl)), right_part)

ExtensiblePartition(parts) == ExtensibleSplit(Split(parts[1], <<":">>), parts[3])

\* lines 142-175
ExtensibleMatch(match) == ExtensiblePartition(Partition(match, <<":", "=">>))

\* lines 177-178
PresentMatch(match) ==
    Leaf(MATCH_PRESENT, [attr |-> SubSeq(match, 1, Len(match) - 2)])

\* [validate_assertion_value(x) for x in xs if x]
RECURSIVE ValidateNonEmpty(_)
ValidateNonEmpty(xs) ==
    IF xs = <<>> THEN <<>>
    ELSE (IF Head(xs) # <<>> THEN <<validate_assertion_value(Head(xs))>> ELSE <<>>)
         \o ValidateNonEmpty(Tail(xs))

\* lines 180-186
SubstringLeaf(attr, substrings, n) ==
    Leaf(MATCH_SUBSTRING,
         [attr |-> attr,
          initial |-> IF substrings[1] # <<>>
                      THEN Some(validate_assertion_value(substrings[1])) ELSE None,
          any |-> ValidateNonEmpty(SubSeq(substrings, 2, n - 1)),
          final |-> IF substrings[n] # <<>>
                    THEN Some(validate_assertion_value(substrings[n])) ELSE None])

SubstringSplit(attr, substrings) == SubstringLeaf(attr, substrings, Len(substrings))

SubstringPartition(parts) == SubstringSplit(parts[1], Split(parts[3], <<"*">>))

SubstringMatch(match) == SubstringPartition(Partition(match, <<"=">>))

\* lines 129-192, on the stripped clause
Classify(match) ==
    IF Contains(match, <<"~", "=">>) THEN ApproxMatch(match)
    ELSE IF Contains(match, <<">", "=">>)
    THEN AttrValueMatch(MATCH_GREATER_OR_EQUAL, match, <<">", "=">>)
    ELSE IF Contains(match, <<"<", "=">>)
    THEN AttrValueMatch(MATCH_LESS_OR_EQUAL, match, <<"<", "=">>)
    ELSE IF Contains(match, <<":", "=">>) THEN ExtensibleMatch(match)
    ELSE IF EndsWith(match, <<"=", "*">>) THEN PresentMatch(match)
    ELSE IF Contains(match, <<"=">>) /\ Contains(match, <<"*">>)
    THEN SubstringMatch(match)
    ELSE IF Contains(match, <<"=">>)
    THEN AttrValueMatch(MATCH_EQUAL, match, <<"=">>)
    ELSE Raised(LDAPException("invalid matching assertion"))

evaluate_match(match) == Classify(Strip(match))

(***************************************************************************)
(* FilterNode                                                              *)
(***************************************************************************)
\* FilterNode.__init__.  A node is known by its identity, its index in nodes.
FilterNode(tag, assertion) ==
    [tag |-> tag, parent |-> None, assertion |-> assertion, elements |-> <<>>]

\* NodeAppend with the new child put first instead of last
NodeAppend_Prepend(ns, id, filter_node) ==
    Append([ns EXCEPT ![id].elements = <<Len(ns) + 1>> \o @],
           [filter_node EXCEPT !.parent = Some(id)])

\* self.append(filter_node), self being node id of ns: the nodes after the
\* call; the appended node is the last one
NodeAppend(ns, id, filter_node) ==
    Append([ns EXCEPT ![id].elements = Append(@, Len(ns) + 1)],
           [filter_node EXCEPT !.parent = Some(id)])

\* the tree below node id, without identities and parent references
RECURSIVE TreeOf(_, _)
TreeOf(ns, id) ==
    [tag |-> ns[id].tag,
     assertion |-> ns[id].assertion,
     elements |-> [i \in 1..Len(ns[id].elements) |-> TreeOf(ns, ns[id].elements[i])]]

(***************************************************************************)
(* parse_filter: the scan                                                  *)
(***************************************************************************)
\* the truth value of start_pos: None and 0 are false
Truthy(p) == p # None /\ p[1] # 0

\* lines 199: the checks made before the scan
PreScanOk(s) ==
    /\ s # <<>>
    /\ Count(s, "(") = Count(s, ")")
    /\ StartsWith(s, <<"(">>)
    /\ EndsWith(s, <<")">>)

\* lines 200-205: the locals of the scan as the loop starts; root is node 1
ScanStart ==
    [state |-> SEARCH_OPEN_OR_CLOSE,
     nodes |-> <<FilterNode(ROOT, None)>>,
     current_node |-> Some(1),
     start_pos |-> None,
     skip_white_space |-> TRUE,
     just_closed |-> FALSE,
     exc |-> NoExc]

\* Arm with ')' taken as a close in SEARCH_MATCH_OR_CONTROL too, right
\* after '('
Arm_CloseAfterOpen(st, c) ==
    IF st.skip_white_space /\ c \in whitespace THEN "skip"
    ELSE IF st.state \in {SEARCH_OPEN, SEARCH_OPEN_OR_CLOSE} /\ c = "(" THEN "open"
    ELSE IF st.state = SEARCH_MATCH_OR_CONTROL /\ c \in {"&", "!", "|"} THEN "control"
    ELSE IF st.state \in {SEARCH_MATCH_OR_CLOSE, SEARCH_OPEN_OR_CLOSE,
                          SEARCH_MATCH_OR_CONTROL} /\ c = ")" THEN "close"
    ELSE IF st.state \in {SEARCH_MATCH_OR_CLOSE, SEARCH_MATCH_OR_CONTROL} /\ c \notin {"(", ")"}
    THEN "capture"
    ELSE "malformed"

\* which arm of the if/elif chain of lines 207-239 takes character c
Arm(st, c) ==
    IF st.skip_white_space /\ c \in whitespace THEN "skip"
    ELSE IF st.state \in {SEARCH_OPEN, SEARCH_OPEN_OR_CLOSE} /\ c = "(" THEN "open"
    ELSE IF st.state = SEARCH_MATCH_OR_CONTROL /\ c \in {"&", "!", "|"} THEN "control"
    ELSE IF st.state \in {SEARCH_MATCH_OR_CLOSE, SEARCH_OPEN_OR_CLOSE} /\ c = ")" THEN "close"
    ELSE IF st.state \in {SEARCH_MATCH_OR_CLOSE, SEARCH_MATCH_OR_CONTROL} /\ c \notin {"(", ")"}
    THEN "capture"
    ELSE "malformed"

\* OnOpen with just_closed left as it is
OnOpen_KeepJustClosed(st) == [st EXCEPT !.state = SEARCH_MATCH_OR_CONTROL]

\* lines 209-211
OnOpen(st) == [st EXCEPT !.state = SEARCH_MATCH_OR_CONTROL, !.just_closed = FALSE]

ControlTag(c) == CASE c = "&" -> AND [] c = "|" -> OR [] c = "!" -> NOT

\* lines 212-219; current_node.append fails on None
OnControl(st, c) ==
    IF st.current_node = None THEN [st EXCEPT !.exc = AttributeError]
    ELSE [st EXCEPT !.nodes = NodeAppend(@, st.current_node[1], FilterNode(ControlTag(c), None)),
                    !.current_node = Some(Len(st.nodes) + 1),
                    !.state = SEARCH_OPEN]

\* lines 221-222, 231-232: a close right after a close; None has no parent
OnCloseAscend(st) ==
    IF st.current_node = None THEN [st EXCEPT !.exc = AttributeError]
    ELSE [st EXCEPT !.current_node = st.nodes[st.current_node[1]].parent,
                    !.start_pos = None,
                    !.state = SEARCH_OPEN_OR_CLOSE]

\* line 228: the guard on a leaf appended to a NOT node
NotIsFull(node) == node.tag = NOT /\ Len(node.elements) > 0

\* lines 224-225
MarkClosed(st) == [st EXCEPT !.just_closed = TRUE, !.skip_white_space = TRUE]

\* lines 231-232
ResetToken(st) == [st EXCEPT !.start_pos = None, !.state = SEARCH_OPEN_OR_CLOSE]

\* line 230: current_node.append(m), m being what evaluate_match gave
AppendMatch(st, m) ==
    IF m.exc # NoExc THEN [st EXCEPT !.exc = m.exc]
    ELSE ResetToken([st EXCEPT !.nodes = NodeAppend(@, st.current_node[1],
                                                    FilterNode(m.tag, m.assertion))])

\* lines 223-232: the first close after a token; current_node.tag fails on None
OnCloseFinalize(st, s, end_pos) ==
    IF ~Truthy(st.start_pos) THEN ResetToken(MarkClosed(st))
    ELSE IF st.current_node = None THEN [MarkClosed(st) EXCEPT !.exc = AttributeError]
    ELSE IF NotIsFull(st.nodes[st.current_node[1]])
    THEN [MarkClosed(st) EXCEPT !.exc = LDAPException("Not clause in filter cannot be multiple")]
    ELSE AppendMatch(MarkClosed(st),
                     evaluate_match(SubSeq(s, st.start_pos[1] + 1, end_pos)))

\* lines 233-237
OnCapture(st, p) ==
    [st EXCEPT !.skip_white_space = FALSE,
               !.start_pos = IF Truthy(st.start_pos) THEN @ ELSE Some(p),
               !.state = SEARCH_MATCH_OR_CLOSE]

\* line 239
OnMalformed(st) == [st EXCEPT !.exc = LDAPException("malformed filter")]

\* one turn of the loop of line 206: character c, at position p of s
TakeArm(arm, st, s, p, c) ==
    CASE arm = "skip" -> st
      [] arm = "open" -> OnOpen(st)
      [] arm = "control" -> OnControl(st, c)
      [] arm = "close" -> IF st.just_closed THEN OnCloseAscend(st)
                          ELSE OnCloseFinalize(st, s, p)
      [] arm = "capture" -> OnCapture(st, p)
      [] OTHER -> OnMalformed(st)

ScanStep(st, s, p) == TakeArm(Arm(st, s[p + 1]), st, s, p, s[p + 1])

\* lines 240-242
AfterScan(st) ==
    IF Len(st.nodes[1].elements) # 1
    THEN [st EXCEPT !.exc = LDAPException("missing boolean operator in filter")]
    ELSE st

RECURSIVE ScanFrom(_, _, _)
ScanFrom(st, s, p) ==
    IF st.exc # NoExc THEN st
    ELSE IF p >= Len(s) THEN AfterScan(st)
    ELSE ScanFrom(ScanStep(st, s, p), s, p + 1)

\* parse_filter as one call, on the stripped text: the locals as it ends
ParseStripped(s) ==
    IF PreScanOk(s) THEN ScanFrom(ScanStart, s, 0)
    ELSE [ScanStart EXCEPT !.exc = LDAPException("invalid filter")]

parse_filter(raw) == ParseStripped(Strip(raw))

(***************************************************************************)
(* compile_filter                                                          *)
(***************************************************************************)
\* the attribute description and assertion value of lines 267-281, 310-314
AvaFilter(type, assertion) ==
    [type |-> type, attributeDesc |-> assertion.attr, assertionValue |-> assertion.value]

\* lines 294-309: the substring components, in the order they are set
CompileSubstrings(assertion) ==
    (IF assertion.initial # None /\ assertion.initial[1] # <<>>
     THEN <<[kind |-> "initial", value |-> assertion.initial[1]]>> ELSE <<>>)
    \o [i \in 1..Len(assertion.any) |-> [kind |-> "any", value |-> assertion.any[i]]]
    \o (IF assertion.final # None /\ assertion.final[1] # <<>>
        THEN <<[kind |-> "final", value |-> assertion.final[1]]>> ELSE <<>>)

\* lines 282-290: matchingRule and type are set only when they are not empty
CompileExtensible(assertion) ==
    [type |-> "extensibleMatch",
     matchingRule |-> IF assertion.matchingRule # None /\ assertion.matchingRule[1] # <<>>
                      THEN assertion.matchingRule ELSE None,
     attrType |-> IF assertion.attr # None /\ assertion.attr[1] # <<>>
                  THEN assertion.attr ELSE None,
     matchValue |-> assertion.value,
     dnAttributes |-> assertion.dnAttributes]

RECURSIVE compile_filter(_, _)
\* the first of the compiled operands that raised, or the boolean filter
BooleanFilter(type, compiled, failed) ==
    IF failed # {} THEN compiled[FirstOf(failed)]
    ELSE [type |-> type, filters |-> compiled]

FailedIn(compiled) == {i \in 1..Len(compiled) : compiled[i].type = "raised"}

BooleanOf(type, compiled) == BooleanFilter(type, compiled, FailedIn(compiled))

\* lines 267-314: the leaf tags
CompileLeaf(tag, a) ==
    IF tag = MATCH_APPROX THEN AvaFilter("approxMatch", a)
    ELSE IF tag = MATCH_GREATER_OR_EQUAL THEN AvaFilter("greaterOrEqual", a)
    ELSE IF tag = MATCH_LESS_OR_EQUAL THEN AvaFilter("lessOrEqual", a)
    ELSE IF tag = MATCH_EXTENSIBLE THEN CompileExtensible(a)
    ELSE IF tag = MATCH_PRESENT THEN [type |-> "present", attributeDesc |-> a.attr]
    ELSE IF tag = MATCH_SUBSTRING
    THEN [type |-> "substringFilter", attributeDesc |-> a.attr,
          substrings |-> CompileSubstrings(a)]
    ELSE AvaFilter("equalityMatch", a)

\* compile_filter(filter_node), filter_node being node id of ns.  A wire
\* filter is a record whose type is the name of the chosen component.
compile_filter(ns, id) ==
    IF ns[id].tag = AND
    THEN BooleanOf("and", [i \in 1..Len(ns[id].elements) |->
                              compile_filter(ns, ns[id].elements[i])])
    ELSE IF ns[id].tag = OR
    THEN BooleanOf("or", [i \in 1..Len(ns[id].elements) |->
                             compile_filter(ns, ns[id].elements[i])])
    ELSE IF ns[id].tag = NOT
    THEN BooleanOf("notFilter", <<compile_filter(ns, ns[id].elements[1])>>)
    ELSE IF ns[id].tag \in MATCH_APPROX..MATCH_EQUAL
    THEN CompileLeaf(ns[id].tag, ns[id].assertion[1])
    ELSE [type |-> "raised", exc |-> LDAPException("unknown filter")]

\* protocol/convert.py, ava_to_dict: the attribute and the value as text
ava_to_dict(ava) == [attribute |-> ava.attributeDesc, value |-> ava.assertionValue]

\* matching_rule_assertion_to_string: str() of the wire object, whose text
\* the codec library decides; the model keeps it as one opaque character
matching_rule_assertion_to_string(f) == <<"<extensibleMatch>">>

\* lines 408, 412, 416: the character written after '(' for a boolean filter
AndGlyph == <<"&">>

OrGlyph == <<"!">>

NotGlyph == <<"!">>

\* lines 423-430: filter_string after one more substring component; a
\* component whose value is empty is false in each of the three tests
AddSubstring(text, substring) ==
    IF substring.value = <<>> THEN text
    ELSE IF substring.kind = "initial" THEN text \o substring.value \o <<"*">>
    ELSE IF substring.kind = "any"
    THEN (IF EndsWith(text, <<"*">>)
          THEN text \o substring.value
          ELSE text \o <<"*">> \o substring.value) \o <<"*">>
    ELSE text \o <<"*">> \o substring.value

RECURSIVE AddSubstrings(_, _)
AddSubstrings(text, substrings) ==
    IF substrings = <<>> THEN text
    ELSE AddSubstrings(AddSubstring(text, Head(substrings)), Tail(substrings))

RECURSIVE filter_to_string(_)
\* lines 417-419, 431-436, 439-441
AvaText(ava, operator) == <<"(">> \o ava.attribute \o operator \o ava.value

\* lines 407-416: '(' + glyph + the operands decompiled
BooleanText(glyph, filters) ==
    <<"(">> \o glyph \o Join([i \in 1..Len(filters) |-> filter_to_string(filters[i])])

\* lines 405-446: filter_string before the closing parenthesis is added
OpenText(f) ==
    IF f.type = "and" THEN BooleanText(AndGlyph, f.filters)
    ELSE IF f.type = "or" THEN BooleanText(OrGlyph, f.filters)
    ELSE IF f.type = "notFilter" THEN BooleanText(NotGlyph, f.filters)
    ELSE IF f.type = "equalityMatch" THEN AvaText(ava_to_dict(f), <<"=">>)
    ELSE IF f.type = "substringFilter"
    THEN AddSubstrings(<<"(">> \o f.attributeDesc \o <<"=">>, f.substrings)
    ELSE IF f.type = "greaterOrEqual" THEN AvaText(ava_to_dict(f), <<">", "=">>)
    ELSE IF f.type = "lessOrEqual" THEN AvaText(ava_to_dict(f), <<"<", "=">>)
    ELSE IF f.type = "present" THEN <<"(">> \o f.attributeDesc \o <<"=", "*">>
    ELSE IF f.type = "approxMatch" THEN AvaText(ava_to_dict(f), <<"~", "=">>)
    ELSE <<"(">> \o matching_rule_assertion_to_string(f)

filter_to_string(f) == OpenText(f) \o <<")">>

(***************************************************************************)
(* Inputs                                                                  *)
(***************************************************************************)
\* the largest number of nodes of a generated filter
MaxNodes == 4

\* the longest text generated over ParenAlphabet, its enclosing pair aside
MaxParenLen == 6

\* leaf clauses are a left part, an operator and a right part
ClauseLefts ==
    {<<>>, <<"a">>, <<" ", "a", " ">>, <<"*", "a">>, <<":">>, <<":", "r">>,
     <<":", "d", "n", ":", "r">>, <<"a", ":", "D", "N">>, <<"a", ":", "r">>,
     <<"a", ":", "d", "n", ":", "r">>, <<":", "r", ":", "s">>,
     <<"a", ":", "b", ":", "c", ":", "d">>}

ClauseOperators ==
    {<<>>, <<"=">>, <<"~", "=">>, <<">", "=">>, <<"<", "=">>, <<":", "=">>}

ClauseRights ==
    {<<>>, <<"b">>, <<" ", "b", " ">>, <<"*">>, <<"b", "*">>, <<"*", "b">>,
     <<"*", "*">>, <<"b", "*", "c", "*", "*", "d">>, <<"b", "*", "c">>,
     <<"*", "b", "*">>, <<"b", "~", "=", "c">>,
     <<"\\", "2", "a">>, <<"\\", "0", "0">>}

Clauses == {l \o o \o r : l \in ClauseLefts, o \in ClauseOperators, r \in ClauseRights}

\* the leaves of the generated filters of more than one node
TreeLeaves == {<<"(", "a", "=", "b", ")">>, <<"(", "c", "=", "*", ")">>}

Glyphs == {"&", "|", "!"}

\* the filter texts of exactly n nodes, and the concatenations of filter
\* texts of n nodes in all; a group may have no operand
RECURSIVE TextsOfSize(_)
RECURSIVE ForestsOfSize(_)
TextsOfSize(n) ==
    (IF n = 1 THEN TreeLeaves ELSE {})
    \cup {<<"(", g>> \o f \o <<")">> : g \in Glyphs, f \in ForestsOfSize(n - 1)}

ForestsOfSize(n) ==
    IF n = 0 THEN {<<>>}
    ELSE UNION {{t \o f : t \in TextsOfSize(k), f \in ForestsOfSize(n - k)} : k \in 1..n}

TreeTexts == UNION {TextsOfSize(n) : n \in 1..MaxNodes}

\* a filter text with one blank put in at any place
SpacedTexts ==
    UNION {{SubSeq(t, 1, i) \o <<" ">> \o SubSeq(t, i + 1, Len(t)) : i \in 0..Len(t)} :
           t \in UNION {TextsOfSize(n) : n \in 1..(MaxNodes - 1)}}

ClauseTexts == {<<"(">> \o c \o <<")">> : c \in Clauses}

\* every text over parentheses, a glyph, an operator and the blank, bare
\* and enclosed
ParenAlphabet == {"(", ")", "!", "=", " "}

ParenTexts ==
    LET bare == UNION {[1..n -> ParenAlphabet] : n \in 0..MaxParenLen}
    IN  bare \cup {<<"(">> \o w \o <<")">> : w \in bare}

Inputs == TreeTexts \cup SpacedTexts \cup ClauseTexts \cup ParenTexts

(***************************************************************************)
(* parse_filter, build_filter and filter_to_string as a state machine      *)
(***************************************************************************)
\* the locals of the scan
Locals ==
    [state |-> state, nodes |-> nodes, current_node |-> current_node,
     start_pos |-> start_pos, skip_white_space |-> skip_white_space,
     just_closed |-> just_closed, exc |-> exc]

SetLocals(st) ==
    /\ state' = st.state
    /\ nodes' = st.nodes
    /\ current_node' = st.current_node
    /\ start_pos' = st.start_pos
    /\ skip_white_space' = st.skip_white_space
    /\ just_closed' = st.just_closed
    /\ exc' = st.exc

Idle ==
    /\ pos = 0
    /\ state = SEARCH_OPEN_OR_CLOSE
    /\ nodes = <<>>
    /\ current_node = None
    /\ start_pos = None
    /\ skip_white_space = TRUE
    /\ just_closed = FALSE
    /\ exc = NoExc
    /\ compiled_filter = None
    /\ filter_string = None
    /\ request = None
    /\ ret = None

Init ==
    /\ search_filter \in Inputs
    /\ call = [fn |-> "parse_filter"]
    /\ pc = "call"
    /\ Idle

\* lines 198-205, 243-244
Enter ==
    /\ pc = "call"
    /\ call.fn = "parse_filter"
    /\ search_filter' = Strip(search_filter)
    /\ IF PreScanOk(Strip(search_filter))
       THEN /\ SetLocals(ScanStart)
            /\ pc' = "scan"
       ELSE /\ exc' = LDAPException("invalid filter")
            /\ pc' = "raised"
            /\ UNCHANGED <<state, nodes, current_node, start_pos,
                           skip_white_space, just_closed>>
    /\ UNCHANGED <<pos, compiled_filter, filter_string, request, call, ret>>

\* the locals after a turn of the loop, and where the call is then
TurnTo(st) ==
    /\ SetLocals(st)
    /\ pc' = IF st.exc # NoExc THEN "raised" ELSE "scan"
    /\ pos' = IF st.exc # NoExc THEN pos ELSE pos + 1

\* the loop of line 206 is at a character that the given arm takes
AtArm(arm) ==
    /\ pc = "scan"
    /\ pos < Len(search_filter)
    /\ Arm(Locals, search_filter[pos + 1]) = arm

\* one turn of the loop of line 206
Turn ==
    /\ TurnTo(ScanStep(Locals, search_filter, pos))
    /\ UNCHANGED <<search_filter, compiled_filter, filter_string, request, call, ret>>

\* lines 207-208
ScanSkip ==
    /\ AtArm("skip")
    /\ Turn

\* lines 209-211
ScanOpen ==
    /\ AtArm("open")
    /\ Turn

\* lines 212-219
ScanControl ==
    /\ AtArm("control")
    /\ Turn

\* lines 220-222, 231-232
ScanCloseAscend ==
    /\ AtArm("close")
    /\ just_closed
    /\ Turn

\* lines 220, 223-232
ScanCloseFinalize ==
    /\ AtArm("close")
    /\ ~just_closed
    /\ Turn

\* lines 233-237
ScanCapture ==
    /\ AtArm("capture")
    /\ Turn

\* lines 238-239
ScanMalformed ==
    /\ AtArm("malformed")
    /\ Turn

\* lines 240-242
FinishWith(e) ==
    /\ exc' = e
    /\ pc' = IF e # NoExc THEN "raised" ELSE "parsed"
    /\ ret' = IF e # NoExc THEN None ELSE Some(1)

Finish ==
    /\ pc = "scan"
    /\ pos = Len(search_filter)
    /\ FinishWith(AfterScan(Locals).exc)
    /\ UNCHANGED <<search_filter, pos, state, nodes, current_node, start_pos,
                   skip_white_space, just_closed, compiled_filter,
                   filter_string, request, call>>

\* line 322, build_filter: compile_filter(parse_filter(...).elements[0])
Compile ==
    /\ pc = "parsed"
    /\ compiled_filter' = Some(compile_filter(nodes, nodes[1].elements[1]))
    /\ pc' = "compiled"
    /\ UNCHANGED <<search_filter, pos, state, nodes, current_node, start_pos,
                   skip_white_space, just_closed, exc, filter_string, request,
                   call, ret>>

\* line 453, search_request_to_dict: filter_to_string(request['filter'])
Decompile ==
    /\ pc = "compiled"
    /\ filter_string' = Some(filter_to_string(compiled_filter[1]))
    /\ pc' = "decompiled"
    /\ UNCHANGED <<search_filter, pos, state, nodes, current_node, start_pos,
                   skip_white_space, just_closed, exc, compiled_filter, request,
                   call, ret>>

Next ==
    \/ Enter
    \/ ScanSkip
    \/ ScanOpen
    \/ ScanControl
    \/ ScanCloseAscend
    \/ ScanCloseFinalize
    \/ ScanCapture
    \/ ScanMalformed
    \/ Finish
    \/ Compile
    \/ Decompile

Spec == Init /\ [][Next]_vars

(***************************************************************************)
(* The structure of a filter text, read off its parentheses alone          *)
(***************************************************************************)
\* the positions (1-based) of the opening parentheses of s
Opens(s) == {i \in 1..Len(s) : s[i] = "("}

\* opening minus closing parentheses among the first j characters of s
Balance(s, j) == Count(SubSeq(s, 1, j), "(") - Count(SubSeq(s, 1, j), ")")

\* the closing parenthesis that matches the opening one at i
MatchOf(s, i) ==
    FirstOf({j \in (i + 1)..Len(s) : s[j] = ")" /\ Balance(s, j) = Balance(s, i) - 1})

\* the first character after position i that is not whitespace
NextChar(s, i) == s[FirstOf({k \in (i + 1)..Len(s) : s[k] \notin whitespace})]

\* the parenthesis at i opens a boolean group
IsGroup(s, i) == NextChar(s, i) \in Glyphs

\* the innermost boolean group open at position i: its opening position,
\* or 0 when none is open
InnermostOpen(s, i) ==
    LET around == {j \in Opens(s) : j < i /\ MatchOf(s, j) > i /\ IsGroup(s, j)}
    IN  IF around = {} THEN 0 ELSE CHOOSE j \in around : \A k \in around : k <= j

\* the node of the filter that opens at position i: nodes are created in
\* the order of the text, after ROOT
NodeAt(s, i) == IF i = 0 THEN 1 ELSE 1 + Cardinality({j \in Opens(s) : j <= i})

\* a set of numbers as an increasing sequence
RECURSIVE Ascending(_)
Ascending(S) ==
    IF S = {} THEN <<>>
    ELSE <<FirstOf(S)>> \o Ascending(S \ {FirstOf(S)})

\* the nodes of the filters that the text puts right under the group that
\* opens at j (under ROOT for j = 0), in the order of the text
TextChildren(s, j) ==
    Ascending({NodeAt(s, i) : i \in {k \in Opens(s) : InnermostOpen(s, k) = j}})

BooleanTags == {AND, OR, NOT}

LeafTags == MATCH_APPROX..MATCH_EQUAL

(***************************************************************************)
(* Claims on parse_filter, build_filter and filter_to_string               *)
(***************************************************************************)
\* the text has no escape sequence and the tree no extensible match, whose
\* decompiled text is the codec library's
RoundTripCase ==
    /\ pc = "decompiled"
    /\ ~Contains(search_filter, <<"\\">>)
    /\ \A i \in 1..Len(nodes) : nodes[i].tag # MATCH_EXTENSIBLE

Reparsed == parse_filter(filter_string[1])

\* C1: the decompiled text of an accepted filter is accepted by
\* parse_filter and gives a tree with the same tags, the same assertions
\* and the same child order as the tree of the filter.
C1_RoundTrip ==
    RoundTripCase =>
        /\ Reparsed.exc = NoExc
        /\ TreeOf(Reparsed.nodes, 1) = TreeOf(nodes, 1)

\* C2: in every tree that parse_filter returns, each NOT node has exactly
\* one child.
C2_NotHasOneChild ==
    pc = "parsed" =>
        \A i \in 1..Len(nodes) : nodes[i].tag = NOT => Len(nodes[i].elements) = 1

\* C3: in every tree that parse_filter returns, each leaf and each group is
\* the child of the innermost boolean group that the text has open where the
\* leaf or group starts (of ROOT when none is open), the children of every
\* node are in the order of the text, a group has the tag of its glyph and
\* a clause is a leaf.
C3_TreeFollowsText ==
    pc = "parsed" =>
        /\ Len(nodes) = 1 + Cardinality(Opens(search_filter))
        /\ \A i \in Opens(search_filter) :
              /\ nodes[NodeAt(search_filter, i)].parent
                    = Some(NodeAt(search_filter, InnermostOpen(search_filter, i)))
              /\ nodes[NodeAt(search_filter, i)].elements
                    = TextChildren(search_filter, IF IsGroup(search_filter, i) THEN i ELSE -1)
              /\ nodes[NodeAt(search_filter, i)].tag
                    = IF IsGroup(search_filter, i)
                      THEN ControlTag(NextChar(search_filter, i))
                      ELSE evaluate_match(SubSeq(search_filter, i + 1,
                                                 MatchOf(search_filter, i) - 1)).tag
        /\ nodes[1].elements = TextChildren(search_filter, 0)
        /\ nodes[1].tag = ROOT

AndOfTwoText ==
    <<"(", "&", "(", "a", "=", "b", ")", "(", "c", "=", "*", ")", ")">>

AndOfTwoTree ==
    [tag |-> ROOT, assertion |-> None, elements |-> <<
        [tag |-> AND, assertion |-> None, elements |-> <<
            [tag |-> MATCH_EQUAL,
             assertion |-> Some([attr |-> <<"a">>, value |-> <<"b">>]),
             elements |-> <<>>],
            [tag |-> MATCH_PRESENT,
             assertion |-> Some([attr |-> <<"c">>]),
             elements |-> <<>>] >>] >>]

\* C3, witness: '(&(a=b)(c=*))' is parsed to ROOT -> AND -> [MATCH_EQUAL(a, b),
\* MATCH_PRESENT(c)].
C3_Witness ==
    /\ pc = "parsed"
    /\ search_filter = AndOfTwoText
    /\ TreeOf(nodes, 1) = AndOfTwoTree

FilterErrors ==
    {"invalid filter", "malformed filter", "missing boolean operator in filter",
     "Not clause in filter cannot be multiple", "invalid matching assertion",
     "invalid extensible filter"}

\* C4: parse_filter fails only with an LDAPException whose message is one
\* of the six filter errors.
C4_OnlyFilterErrors ==
    pc = "raised" => exc.class = "LDAPException" /\ exc.msg \in FilterErrors

\* the text, trimmed, passes the checks made before the scan and holds
\* nothing but parentheses and whitespace: it has no filter at all
NoFilterCase ==
    /\ call.fn = "parse_filter"
    /\ PreScanOk(Strip(search_filter))
    /\ \A i \in 1..Len(search_filter) : search_filter[i] \in {"(", ")"} \cup whitespace

\* C5 as stated: a text that passes the checks made before the scan and
\* has no filter is rejected with 'missing boolean operator in filter'.
C5_NoFilterIsMissingOperator ==
    (NoFilterCase /\ pc \notin {"call", "scan"}) =>
        pc = "raised" /\ exc = LDAPException("missing boolean operator in filter")

\* C5 as amended: a text that passes the checks made before the scan and
\* has no filter is rejected with 'malformed filter'.
C5_NoFilterIsMalformed ==
    (NoFilterCase /\ pc \notin {"call", "scan"}) =>
        pc = "raised" /\ exc = LDAPException("malformed filter")

\* C5, witness: '()' has been rejected with 'malformed filter'.
C5_Witness ==
    /\ search_filter = <<"(", ")">>
    /\ pc = "raised"
    /\ exc = LDAPException("malformed filter")

\* the glyph that parse_filter reads for the node tag of a boolean filter
GlyphOfTag(tag) == CHOOSE g \in Glyphs : ControlTag(g) = tag

TagOfType(type) == CASE type = "and" -> AND [] type = "or" -> OR [] type = "notFilter" -> NOT

\* C8: a boolean wire filter is decompiled to '(' + the glyph that
\* parse_filter reads for its kind + its operands decompiled + ')'.
C8_BooleanGlyphs ==
    (pc = "decompiled" /\ compiled_filter[1].type \in {"and", "or", "notFilter"}) =>
        filter_string[1]
            = <<"(", GlyphOfTag(TagOfType(compiled_filter[1].type))>>
              \o Join([i \in 1..Len(compiled_filter[1].filters) |->
                          filter_to_string(compiled_filter[1].filters[i])])
              \o <<")">>

\* C9: in every tree that parse_filter returns, a leaf that is not an
\* extensible match has an attr that is not empty.
C9_AttrNotEmpty ==
    pc = "parsed" =>
        \A i \in 1..Len(nodes) :
            nodes[i].tag \in LeafTags \ {MATCH_EXTENSIBLE}
                => nodes[i].assertion[1].attr # <<>>

\* the text, trimmed, is a boolean AND or OR group with no operand, and
\* the scan of it has ended
ZeroOperandCase ==
    /\ call.fn = "parse_filter"
    /\ Strip(search_filter) \in {<<"(", "&", ")">>, <<"(", "|", ")">>}
    /\ pc \notin {"call", "scan"}

\* C11: parse_filter accepts '(&)' and '(|)' and returns a ROOT whose
\* single child is an AND (resp. OR) node with no children.
C11_ZeroOperandGroupAccepted ==
    ZeroOperandCase =>
        /\ pc # "raised"
        /\ Len(nodes) = 2
        /\ TreeOf(nodes, 1)
            = [tag |-> ROOT, assertion |-> None,
               elements |-> <<[tag |-> ControlTag(Strip(search_filter)[2]),
                               assertion |-> None, elements |-> <<>>]>>]

(***************************************************************************)
(* validate_assertion_value and evaluate_match, called on their own        *)
(***************************************************************************)
\* the largest number of pieces of a generated raw value
MaxPieces == 3

\* a raw value is a run of pieces: escape sequences and parts of them,
\* plain characters and blanks
ValuePieces ==
    {Esc2a, Esc2A, Esc28, Esc29, Esc5c, Esc5C, Esc00,
     <<"x">>, <<" ">>, <<"\\">>, <<"0", "0">>, <<"5", "C">>}

RECURSIVE RunsOf(_)
RunsOf(n) ==
    IF n = 0 THEN {<<>>}
    ELSE RunsOf(n - 1) \cup {r \o q : r \in RunsOf(n - 1), q \in ValuePieces}

RawValues == RunsOf(MaxPieces)

CallInit ==
    /\ \/ call \in {[fn |-> "validate_assertion_value", arg |-> v] : v \in RawValues}
       \/ call \in {[fn |-> "evaluate_match", arg |-> c] : c \in Clauses}
    /\ search_filter = <<>>
    /\ pc = "call"
    /\ Idle

\* lines 102-124
Validate ==
    /\ pc = "call"
    /\ call.fn = "validate_assertion_value"
    /\ ret' = Some(validate_assertion_value(call.arg))
    /\ pc' = "returned"
    /\ UNCHANGED <<search_filter, pos, state, nodes, current_node, start_pos,
                   skip_white_space, just_closed, exc, compiled_filter,
                   filter_string, request, call>>

\* the call of evaluate_match ends with result m
EvaluateTo(m) ==
    /\ exc' = m.exc
    /\ ret' = IF m.exc # NoExc THEN None ELSE Some(FilterNode(m.tag, m.assertion))
    /\ pc' = IF m.exc # NoExc THEN "raised" ELSE "returned"

\* lines 127-194
Evaluate ==
    /\ pc = "call"
    /\ call.fn = "evaluate_match"
    /\ EvaluateTo(evaluate_match(call.arg))
    /\ UNCHANGED <<search_filter, pos, state, nodes, current_node, start_pos,
                   skip_white_space, just_closed, compiled_filter,
                   filter_string, request, call>>

CallNext ==
    \/ Validate
    \/ Evaluate

CallSpec == CallInit /\ [][CallNext]_vars

\* the clause of a call of evaluate_match, trimmed, split at its first '~='
ApproxParts == Partition(Strip(call.arg), <<"~", "=">>)

\* C6: evaluate_match on a clause that contains '~=' returns a MATCH_APPROX
\* leaf whose attr is the trimmed text before the first '~=' and whose
\* value is the normalized text after it.
C6_ApproxLeaf ==
    (/\ call.fn = "evaluate_match"
     /\ pc # "call"
     /\ Contains(call.arg, <<"~", "=">>)) =>
        /\ pc = "returned"
        /\ ret[1].tag = MATCH_APPROX
        /\ ret[1].assertion[1].attr = Strip(ApproxParts[1])
        /\ ret[1].assertion[1].value = validate_assertion_value(ApproxParts[3])

\* the value that the claim describes: trimmed, then each escape sequence
\* replaced in turn, \00 by the NUL character after the others
Unescaped(value) ==
    Replace(Replace(Replace(Replace(Replace(Replace(Replace(Strip(value),
        Esc2a, <<"*">>), Esc2A, <<"*">>), Esc28, <<"(">>), Esc29, <<")">>),
        Esc5c, <<"\\">>), Esc5C, <<"\\">>), Esc00, <<NUL>>)

\* C7: validate_assertion_value returns its input trimmed, with \2a and
\* \2A replaced by '*', \28 by '(', \29 by ')', \5c and \5C by a backslash
\* and \00 by the NUL character.
C7_AllEscapesReplaced ==
    (call.fn = "validate_assertion_value" /\ pc = "returned") =>
        ret[1] = Unescaped(call.arg)

(***************************************************************************)
(* search_operation                                                        *)
(***************************************************************************)
\* ldap3/__init__.py: the scopes, the alias policies and the selector that
\* asks for no attribute
SEARCH_SCOPE_BASE_OBJECT == 0
SEARCH_SCOPE_SINGLE_LEVEL == 1
SEARCH_SCOPE_WHOLE_SUBTREE == 2

SEARCH_NEVER_DEREFERENCE_ALIASES == 0
SEARCH_DEREFERENCE_IN_SEARCHING == 1
SEARCH_DEREFERENCE_FINDING_BASE_OBJECT == 2
SEARCH_DEREFERENCE_ALWAYS == 3

NO_ATTRIBUTES == "1.1"

\* the longest attributes argument generated
MaxAttributes == 2

AttributeNames == {"cn", "sn"}

\* an attributes argument: its Python type and its items
AttributeArgs ==
    {[type |-> t, items |-> a] :
        t \in {"list", "tuple"},
        a \in UNION {[1..n -> AttributeNames] : n \in 0..MaxAttributes}}
    \cup {[type |-> "str", items |-> <<"sn">>], [type |-> "NoneType", items |-> <<>>]}

SearchFilters ==
    {<<"(", "a", "=", "b", ")">>,
     <<"(", "|", "(", "a", "=", "b", ")", "(", "c", "=", "*", ")", ")">>,
     <<"(", "a", "=", "b">>}

SearchCalls ==
    [fn : {"search_operation"},
     search_base : {<<"o", "=", "x">>},
     size_limit : {0},
     time_limit : {0},
     search_filter : SearchFilters,
     search_scope : 0..3,
     dereference_aliases : 0..4,
     attributes : AttributeArgs,
     types_only : BOOLEAN]

SearchInit ==
    /\ call \in SearchCalls
    /\ search_filter = <<>>
    /\ pc = "call"
    /\ Idle

\* the fields of a SearchRequest that are not set are None
EmptyRequest ==
    [baseObject |-> None, scope |-> None, derefAliases |-> None,
     sizeLimit |-> None, timeLimit |-> None, typesOnly |-> None,
     filter |-> None, attributes |-> None]

ScopeName(search_scope) ==
    IF search_scope = SEARCH_SCOPE_BASE_OBJECT THEN Some("baseObject")
    ELSE IF search_scope = SEARCH_SCOPE_SINGLE_LEVEL THEN Some("singleLevel")
    ELSE IF search_scope = SEARCH_SCOPE_WHOLE_SUBTREE THEN Some("wholeSubtree")
    ELSE None

DerefName(dereference_aliases) ==
    IF dereference_aliases = SEARCH_NEVER_DEREFERENCE_ALIASES THEN Some("neverDerefAliases")
    ELSE IF dereference_aliases = SEARCH_DEREFERENCE_IN_SEARCHING THEN Some("derefInSearching")
    ELSE IF dereference_aliases = SEARCH_DEREFERENCE_FINDING_BASE_OBJECT
    THEN Some("derefFindingBaseObj")
    ELSE IF dereference_aliases = SEARCH_DEREFERENCE_ALWAYS THEN Some("derefAlways")
    ELSE None

\* the untouched variables of the steps of search_operation
SearchFrame ==
    UNCHANGED <<search_filter, pos, state, nodes, current_node, start_pos,
                skip_white_space, just_closed, compiled_filter, filter_string,
                call, ret>>

\* lines 334-344
SetScope ==
    /\ pc = "call"
    /\ call.fn = "search_operation"
    /\ IF ScopeName(call.search_scope) # None
       THEN /\ request' = Some([EmptyRequest EXCEPT
                                   !.baseObject = Some(call.search_base),
                                   !.scope = ScopeName(call.search_scope)])
            /\ pc' = "deref"
            /\ exc' = exc
       ELSE /\ exc' = LDAPException("invalid scope type")
            /\ pc' = "raised"
            /\ request' = request
    /\ SearchFrame

\* lines 346-355
SetDeref ==
    /\ pc = "deref"
    /\ IF DerefName(call.dereference_aliases) # None
       THEN /\ request' = Some([request[1] EXCEPT
                                   !.derefAliases = DerefName(call.dereference_aliases)])
            /\ pc' = "limits"
            /\ exc' = exc
       ELSE /\ exc' = LDAPException("invalid dereference aliases type")
            /\ pc' = "raised"
            /\ request' = request
    /\ SearchFrame

\* lines 357-359
SetLimits ==
    /\ pc = "limits"
    /\ request' = Some([request[1] EXCEPT !.sizeLimit = Some(call.size_limit),
                                          !.timeLimit = Some(call.time_limit),
                                          !.typesOnly = Some(call.types_only)])
    /\ pc' = "filter"
    /\ exc' = exc
    /\ SearchFrame

\* line 360, parsed being the locals of parse_filter as it ends
SetFilterTo(parsed) ==
    IF parsed.exc # NoExc
    THEN /\ exc' = parsed.exc
         /\ pc' = "raised"
         /\ request' = request
    ELSE /\ request' = Some([request[1] EXCEPT !.filter =
                Some(compile_filter(parsed.nodes, parsed.nodes[1].elements[1]))])
         /\ pc' = "attributes"
         /\ exc' = exc

SetFilter ==
    /\ pc = "filter"
    /\ SetFilterTo(parse_filter(call.search_filter))
    /\ SearchFrame

\* NormalizeAttributes with the test 'not attributes' in place of
\* 'not isinstance(attributes, list)'
NormalizeAttributes_Falsy(attributes) ==
    IF attributes.items = <<>>
    THEN [type |-> "list", items |-> <<NO_ATTRIBUTES>>]
    ELSE attributes

\* lines 362-363
NormalizeAttributes(attributes) ==
    IF attributes.type # "list"
    THEN [type |-> "list", items |-> <<NO_ATTRIBUTES>>]
    ELSE attributes

\* lines 325-330: one selector for each item, in order
build_attribute_selection(attribute_list) ==
    [index \in 1..Len(attribute_list.items) |-> attribute_list.items[index]]

\* lines 362-365
SetAttributes ==
    /\ pc = "attributes"
    /\ request' = Some([request[1] EXCEPT !.attributes =
            Some(build_attribute_selection(NormalizeAttributes(call.attributes)))])
    /\ pc' = "return"
    /\ exc' = exc
    /\ SearchFrame

\* line 367
Return ==
    /\ pc = "return"
    /\ call.fn = "search_operation"
    /\ ret' = request
    /\ pc' = "returned"
    /\ UNCHANGED <<search_filter, pos, state, nodes, current_node, start_pos,
                   skip_white_space, just_closed, exc, compiled_filter,
                   filter_string, request, call>>

SearchNext ==
    \/ SetScope
    \/ SetDeref
    \/ SetLimits
    \/ SetFilter
    \/ SetAttributes
    \/ Return

SearchSpec == SearchInit /\ [][SearchNext]_vars

SearchReturned == call.fn = "search_operation" /\ pc = "returned"

\* C10 as stated: an attributes argument that is not a list, or is the
\* empty list, gives the selection [NO_ATTRIBUTES], and no request has an
\* empty selection.
C10_EmptyAndNonListNormalized ==
    SearchReturned =>
        /\ ret[1].attributes[1] # <<>>
        /\ (call.attributes.type # "list" \/ call.attributes.items = <<>>)
              => ret[1].attributes[1] = <<NO_ATTRIBUTES>>

\* C10 as amended: an attributes argument that is not a list gives the
\* selection [NO_ATTRIBUTES]; a list, the empty one too, gives a selection
\* of its own items in order.
C10_OnlyNonListNormalized ==
    SearchReturned =>
        ret[1].attributes[1] = IF call.attributes.type = "list"
                               THEN call.attributes.items
                               ELSE <<NO_ATTRIBUTES>>

\* C10, witness: a search with attributes [] has returned a request whose
\* selection is empty.
C10_Witness ==
    /\ SearchReturned
    /\ call.attributes = [type |-> "list", items |-> <<>>]
    /\ ret[1].attributes[1] = <<>>

(***************************************************************************)
(* search_result_entry_response_to_dict                                    *)
(***************************************************************************)
\* the largest number of attributes of a generated entry
MaxEntryAttributes == 2

\* the largest number of values of a generated attribute
MaxVals == 2

\* an octet string is a sequence of byte codes; str() gives its characters
CharOf(b) == CASE b = 97 -> "a" [] b = 98 -> "b"

Str(val) == [i \in 1..Len(val) |-> CharOf(val[i])]

StrAll(vals) == [i \in 1..Len(vals) |-> Str(vals[i])]

\* the truth value of an octet string: it is not empty
NotEmpty(val) == val # <<>>

OctetStrings == {<<>>, <<97>>, <<97, 98>>}

EntryVals == UNION {[1..n -> OctetStrings] : n \in 0..MaxVals}

EntryAttributes == {[type |-> t, vals |-> v] : t \in AttributeNames, v \in EntryVals}

Responses ==
    {[object |-> <<97>>, attributes |-> a] :
        a \in UNION {[1..n -> EntryAttributes] : n \in 0..MaxEntryAttributes}}

\* a dict is a function on its keys
EmptyDict == [k \in {} |-> None]

DictSet(d, key, v) == [k \in DOMAIN d \cup {key} |-> IF k = key THEN v ELSE d[k]]

\* decode_vals with an empty list in place of None
decode_vals_EmptyList(vals) == Some(StrAll(SelectSeq(vals, NotEmpty)))

\* lines 370-374
decode_vals(vals) ==
    IF vals # <<>> THEN Some(StrAll(SelectSeq(vals, NotEmpty))) ELSE None

\* lines 385-389; bytes() of an octet string is its byte codes
decode_raw_vals(vals) == IF vals # <<>> THEN Some(vals) ELSE None

EntryInit ==
    /\ call \in {[fn |-> "search_result_entry_response_to_dict", response |-> r] :
                    r \in Responses}
    /\ search_filter = <<>>
    /\ pc = "call"
    /\ Idle

EntryFrame ==
    UNCHANGED <<search_filter, state, nodes, current_node, start_pos,
                skip_white_space, just_closed, exc, compiled_filter,
                filter_string, request, call>>

\* line 457: the items of the dict are evaluated from left to right; ret
\* holds the dict as far as it is built and pos the place in attribute_list
EntryDn ==
    /\ pc = "call"
    /\ call.fn = "search_result_entry_response_to_dict"
    /\ ret' = Some([dn |-> Str(call.response.object),
                    attributes |-> EmptyDict, raw_attributes |-> EmptyDict])
    /\ pc' = "attributes"
    /\ pos' = 0
    /\ EntryFrame

\* lines 379-380: one turn of the loop of attributes_to_dict
DecodeAttribute ==
    /\ pc = "attributes"
    /\ pos < Len(call.response.attributes)
    /\ ret' = Some([ret[1] EXCEPT !.attributes =
                        DictSet(@, call.response.attributes[pos + 1].type,
                                decode_vals(call.response.attributes[pos + 1].vals))])
    /\ pos' = pos + 1
    /\ pc' = pc
    /\ EntryFrame

\* line 382
AttributesReturn ==
    /\ pc = "attributes"
    /\ pos = Len(call.response.attributes)
    /\ pc' = "raw_attributes"
    /\ pos' = 0
    /\ ret' = ret
    /\ EntryFrame

\* lines 394-395: one turn of the loop of raw_attributes_to_dict
DecodeRawAttribute ==
    /\ pc = "raw_attributes"
    /\ pos < Len(call.response.attributes)
    /\ ret' = Some([ret[1] EXCEPT !.raw_attributes =
                        DictSet(@, call.response.attributes[pos + 1].type,
                                decode_raw_vals(call.response.attributes[pos + 1].vals))])
    /\ pos' = pos + 1
    /\ pc' = pc
    /\ EntryFrame

\* lines 397 and 457
RawAttributesReturn ==
    /\ pc = "raw_attributes"
    /\ pos = Len(call.response.attributes)
    /\ pc' = "returned"
    /\ UNCHANGED <<pos, ret>>
    /\ EntryFrame

EntryNext ==
    \/ EntryDn
    \/ DecodeAttribute
    \/ AttributesReturn
    \/ DecodeRawAttribute
    \/ RawAttributesReturn

EntrySpec == EntryInit /\ [][EntryNext]_vars

EntryReturned == call.fn = "search_result_entry_response_to_dict" /\ pc = "returned"

\* the attribute at place i of the response is the last one of its type
LastOfType(i) ==
    \A j \in (i + 1)..Len(call.response.attributes) :
        call.response.attributes[j].type # call.response.attributes[i].type

\* every list of the map d holds only non-empty values
OnlyNonEmptyValues(d) ==
    \A t \in DOMAIN d : d[t] # None => \A j \in 1..Len(d[t][1]) : d[t][1][j] # <<>>

\* C12 as stated: an attribute that arrives with no values has no key in
\* the 'attributes' map of the record, and every value list of the map
\* holds only non-empty values.
C12_NoValuesHasNoKey ==
    EntryReturned =>
        /\ \A i \in 1..Len(call.response.attributes) :
              (LastOfType(i) /\ call.response.attributes[i].vals = <<>>)
                  => call.response.attributes[i].type \notin DOMAIN ret[1].attributes
        /\ OnlyNonEmptyValues(ret[1].attributes)

\* C12 as amended: every attribute of the response has a key in the
\* 'attributes' map; an attribute that arrives with no values is mapped to
\* None, any other to the list of its non-empty values as text, in order.
C12_NoValuesIsNone ==
    EntryReturned =>
        /\ DOMAIN ret[1].attributes
             = {call.response.attributes[i].type : i \in 1..Len(call.response.attributes)}
        /\ \A i \in 1..Len(call.response.attributes) :
              LastOfType(i) =>
                  ret[1].attributes[call.response.attributes[i].type]
                    = IF call.response.attributes[i].vals = <<>> THEN None
                      ELSE Some(StrAll(SelectSeq(call.response.attributes[i].vals, NotEmpty)))
        /\ OnlyNonEmptyValues(ret[1].attributes)

\* C12, witness: an entry with an attribute of no values and an attribute
\* whose only value is empty has been converted; the first is mapped to
\* None and the second to the empty list.
C12_Witness ==
    /\ EntryReturned
    /\ call.response.attributes
         = <<[type |-> "cn", vals |-> <<>>], [type |-> "sn", vals |-> <<<<>>>>]>>
    /\ ret[1].attributes["cn"] = None
    /\ ret[1].attributes["sn"] = Some(<<>>)

(***************************************************************************)
(* Claims on the text of a substring filter                                *)
(***************************************************************************)
\* a substring wire filter has been decompiled
SubstringCase ==
    /\ call.fn = "parse_filter"
    /\ pc = "decompiled"
    /\ compiled_filter[1].type = "substringFilter"

\* the captured segments of a substring wire filter, in order
SegmentsOf(f) == [i \in 1..Len(f.substrings) |-> f.substrings[i].value]

\* what follows '(attr=' in the text of a substring filter, up to its ')'
PatternOf(text, f) == SubSeq(text, Len(f.attributeDesc) + 3, Len(text) - 1)

\* text is '(attr=' + a pattern + ')' whose parts between asterisks are
\* the captured segments, with no two asterisks side by side
SegmentsSeparatedByOne(text, f, pattern) ==
    /\ text = <<"(">> \o f.attributeDesc \o <<"=">> \o pattern \o <<")">>
    /\ SelectSeq(Split(pattern, <<"*">>), NotEmpty) = SegmentsOf(f)
    /\ ~Contains(pattern, <<"*", "*">>)

\* C13: filter_to_string of a substring wire filter is '(attr=' + the
\* captured segments separated by exactly one '*' + ')'; the text never
\* has two adjacent asterisks.
C13_SingleAsterisks ==
    SubstringCase =>
        SegmentsSeparatedByOne(filter_string[1], compiled_filter[1],
                               PatternOf(filter_string[1], compiled_filter[1]))

(***************************************************************************)
(* Claims on the turns of the scan                                         *)
(***************************************************************************)
\* a turn of the scan that takes character c and does not fail
TurnOn(c) ==
    /\ call.fn = "parse_filter"
    /\ pc = "scan"
    /\ pos < Len(search_filter)
    /\ search_filter[pos + 1] = c
    /\ pc' = "scan"

\* the last character before the one of this turn that is not whitespace
PrevChar ==
    search_filter[CHOOSE k \in 1..pos :
                      /\ search_filter[k] \notin whitespace
                      /\ \A j \in (k + 1)..pos : search_filter[j] \in whitespace]

\* the token captured so far, classified
PendingLeaf(m) == [FilterNode(m.tag, m.assertion) EXCEPT !.parent = current_node]

\* the turn finalizes the pending leaf clause: the captured token is
\* classified and appended, last, to the current node, which stays the cursor
Finalizes ==
    /\ current_node # None
    /\ start_pos # None
    /\ Len(nodes') = Len(nodes) + 1
    /\ nodes'[Len(nodes')]
         = PendingLeaf(evaluate_match(SubSeq(search_filter, start_pos[1] + 1, pos)))
    /\ nodes'[current_node[1]].elements
         = Append(nodes[current_node[1]].elements, Len(nodes'))
    /\ \A i \in 1..Len(nodes) : i # current_node[1] => nodes'[i] = nodes[i]
    /\ current_node' = current_node

\* the turn moves the cursor to the parent of the current node
Ascends ==
    /\ current_node # None
    /\ nodes' = nodes
    /\ current_node' = nodes[current_node[1]].parent

\* what a turn of a scan that goes on does with ')' and with '('
CloseAndOpenTurns ==
    /\ TurnOn(")") =>
          /\ (Finalizes /\ ~Ascends) \/ (Ascends /\ ~Finalizes)
          /\ IF PrevChar = ")" THEN Ascends ELSE Finalizes
          /\ just_closed'
    /\ TurnOn("(") => ~just_closed'

\* C14: in a scan that does not fail each ')' either finalizes the pending
\* leaf clause or moves the cursor to the parent of the current node, never
\* both and never neither; of a run of consecutive ')' (the whitespace that
\* the scan skips between them aside) the first finalizes a leaf and each
\* of the others ascends one level; a '(' resets just_closed, so that the
\* first ')' after it finalizes again.
C14_CloseFinalizesOrAscends == [][CloseAndOpenTurns]_vars

\* C14, witness: '(&(a=b)(|(c=*)))' has been scanned to its end: two leaves
\* were finalized, with a '(' between their ')', and the run of three ')'
\* that ends the text has brought the cursor back to ROOT.
C14_Witness ==
    /\ call.fn = "parse_filter"
    /\ pc = "scan"
    /\ search_filter = <<"(", "&", "(", "a", "=", "b", ")",
                         "(", "|", "(", "c", "=", "*", ")", ")", ")">>
    /\ pos = Len(search_filter)
    /\ just_closed
    /\ current_node = Some(1)
    /\ Len(nodes) = 5
    /\ nodes[3].tag = MATCH_EQUAL
    /\ nodes[5].tag = MATCH_PRESENT

=============================================================================
